---------------------------- MODULE Spec2Model ----------------------------
(***************************************************************************)
(* ingressd: a daemon that keeps Route53 A records pointed at the healthy  *)
(* public addresses of tagged EC2 instances.                               *)
(*                                                                         *)
(* Sources modelled (latest revision of each file):                        *)
(*   src/healthcheck.go 122-293   main, poll                               *)
(*   src/unnamed/part_000 134-299 awsManager (EC2 discovery, Route53)      *)
(*   src/unnamed/part_002 1-109   ensureHostHealthChecks                   *)
(*                                                                         *)
(* Strings the code inspects (zone and record names) are sequences of      *)
(* one-character strings, so suffix tests and trimming are computed.       *)
(* Errors are chains of frames, outermost first; nil is the empty chain.   *)
(***************************************************************************)
EXTENDS Integers, Sequences, FiniteSets, TLC

(***************************************************************************)
(* Bounds of the model.                                                    *)
(***************************************************************************)
MaxNameLen == 3     \* longest zone or record name of the resolver harness
MaxZones == 2       \* longest zone listing of the resolver harness
MaxInstances == 3   \* longest instance listing of the discovery harness

(***************************************************************************)
(* Program constants.                                                      *)
(***************************************************************************)
healthCheckSuccess == 3
recordTTL == 60
statusOK == 200

schemes == <<"http", "https">>

(***************************************************************************)
(* Errors: fmt.Errorf builds a frame, %w puts it in front of the wrapped   *)
(* chain.                                                                  *)
(***************************************************************************)
nil == <<>>
NoName == <<>>

Frame(msg, host, n) == [msg |-> msg, host |-> host, n |-> n]
Errorf(msg) == <<Frame(msg, NoName, 0)>>
ErrorfHost(msg, host) == <<Frame(msg, host, 0)>>
ErrorfCount(msg, n) == <<Frame(msg, NoName, n)>>
Wrap(msg, err) == <<Frame(msg, NoName, 0)>> \o err

\* the error a provider (EC2, Route53) answers with when a call fails
awsError == Errorf("aws error")

(***************************************************************************)
(* strings.HasSuffix and strings.TrimSuffix                                *)
(***************************************************************************)
HasSuffix(s, suffix) ==
    /\ Len(suffix) <= Len(s)
    /\ SubSeq(s, Len(s) - Len(suffix) + 1, Len(s)) = suffix

TrimSuffix(s, suffix) ==
    IF HasSuffix(s, suffix) THEN SubSeq(s, 1, Len(s) - Len(suffix)) ELSE s

(***************************************************************************)
(* net.IP.  An IP value is its bytes; NilIP is the nil slice net.ParseIP   *)
(* returns for text that is no address.  ParseIP reads the IPv4-mapped     *)
(* IPv6 text of an address as that IPv4 address; String prints the         *)
(* canonical text, and "<nil>" for the nil slice.                          *)
(***************************************************************************)
NilIP == <<>>
ip1 == <<10, 0, 0, 1>>
ip2 == <<10, 0, 0, 2>>
ip6 == <<0, 0, 0, 0, 0, 0, 0, 0, 0, 0, 0, 0, 0, 0, 0, 1>>
IPs == {ip1, ip2, ip6}

IPv4Texts == {"10.0.0.1", "10.0.0.2"}
IPv6Texts == {"::1"}

ParseIP(s) ==
    CASE s = "10.0.0.1" -> ip1
      [] s = "::ffff:10.0.0.1" -> ip1
      [] s = "10.0.0.2" -> ip2
      [] s = "::1" -> ip6
      [] OTHER -> NilIP

IPString(ip) ==
    CASE ip = ip1 -> "10.0.0.1"
      [] ip = ip2 -> "10.0.0.2"
      [] ip = ip6 -> "::1"
      [] OTHER -> "<nil>"

\* mutant: every text parses
urlParseAny(s) == [u |-> s, err |-> nil]

\* url.Parse of a text without scheme: a colon in the first path segment
\* (every IPv6 text has one) is an error, dotted IPv4 text parses as a path
urlParse(s) ==
    IF s \in IPv6Texts
    THEN [u |-> "", err |-> Errorf("first path segment in URL cannot contain colon")]
    ELSE [u |-> s, err |-> nil]


(***************************************************************************)
(* EC2 discovery.  A DescribeInstances answer is [err, Reservations], each *)
(* reservation a sequence of instances [State, PublicIpAddress].          *)
(***************************************************************************)
InstanceStateNameRunning == "running"
InstanceStates == {"running", "terminated", "stopping"}

\* mutant: the state of the instance is not looked at
RECURSIVE instanceIPsAnyState(_)
instanceIPsAnyState(instances) ==
    IF instances = <<>> THEN <<>>
    ELSE LET publicIP == ParseIP(Head(instances).PublicIpAddress)
         IN  IF publicIP # NilIP
             THEN <<publicIP>> \o instanceIPsAnyState(Tail(instances))
             ELSE instanceIPsAnyState(Tail(instances))

\* the addresses one reservation contributes, in listing order
RECURSIVE instanceIPs(_)
instanceIPs(instances) ==
    IF instances = <<>> THEN <<>>
    ELSE LET instance == Head(instances)
             publicIP == ParseIP(instance.PublicIpAddress)
         IN  IF instance.State # InstanceStateNameRunning
             THEN instanceIPs(Tail(instances))
             ELSE IF publicIP # NilIP
                  THEN <<publicIP>> \o instanceIPs(Tail(instances))
                  ELSE instanceIPs(Tail(instances))

RECURSIVE reservationIPs(_)
reservationIPs(reservations) ==
    IF reservations = <<>> THEN <<>>
    ELSE instanceIPs(Head(reservations)) \o reservationIPs(Tail(reservations))

getTaggedEC2PublicIPAddrs(res) ==
    IF res.err # nil
    THEN [ips |-> <<>>, err |-> Wrap("error describing instances", res.err)]
    ELSE [ips |-> reservationIPs(res.Reservations), err |-> nil]

(***************************************************************************)
(* Route53 zone resolution.  A ListHostedZones answer is                   *)
(* [err, HostedZones], each zone [Id, Name]; a nil *string field is the    *)
(* empty string, as aws.StringValue reads it.                              *)
(***************************************************************************)
zeroHostedZone == [Id |-> "", Name |-> <<>>]

\* the value of `found` after the loop has visited the first k zones
RECURSIVE foundAfter(_, _, _)
foundAfter(zones, host, k) ==
    IF k = 0 THEN zeroHostedZone
    ELSE LET found == foundAfter(zones, host, k - 1)
             zone == zones[k]
             name == TrimSuffix(zone.Name, <<".">>)
         IN  IF HasSuffix(host, name) /\ Len(name) > Len(found.Name)
             THEN zone
             ELSE found

\* mutant: the id of the zone found is returned unchecked
getRoute53HostedZoneIDUnchecked(zones, host) ==
    IF zones.err # nil
    THEN [id |-> "", err |-> Wrap("error listing hosted zones", zones.err)]
    ELSE [id |-> foundAfter(zones.HostedZones, host, Len(zones.HostedZones)).Id,
          err |-> nil]

\* mutant: a failed listing is read as a listing of no zones
getRoute53HostedZoneIDListingDropped(zones, host) ==
    LET found == foundAfter(zones.HostedZones, host, Len(zones.HostedZones))
    IN  IF found.Id = ""
        THEN [id |-> "", err |-> ErrorfHost("no zone id found for", host)]
        ELSE [id |-> found.Id, err |-> nil]

\* mutant: when the zone found has no id, a matching zone that has one is
\* returned in its place
getRoute53HostedZoneIDOtherZone(zones, host) ==
    IF zones.err # nil
    THEN [id |-> "", err |-> Wrap("error listing hosted zones", zones.err)]
    ELSE LET found == foundAfter(zones.HostedZones, host, Len(zones.HostedZones))
             others == {k \in DOMAIN zones.HostedZones :
                          /\ zones.HostedZones[k].Id # ""
                          /\ HasSuffix(host, TrimSuffix(zones.HostedZones[k].Name, <<".">>))}
         IN  IF found.Id # ""
             THEN [id |-> found.Id, err |-> nil]
             ELSE IF found # zeroHostedZone /\ others # {}
             THEN [id |-> zones.HostedZones[CHOOSE k \in others : TRUE].Id, err |-> nil]
             ELSE [id |-> "", err |-> ErrorfHost("no zone id found for", host)]

getRoute53HostedZoneID(zones, host) ==
    IF zones.err # nil
    THEN [id |-> "", err |-> Wrap("error listing hosted zones", zones.err)]
    ELSE LET found == foundAfter(zones.HostedZones, host, Len(zones.HostedZones))
             id == found.Id
         IN  IF id = ""
             THEN [id |-> "", err |-> ErrorfHost("no zone id found for", host)]
             ELSE [id |-> id, err |-> nil]

(***************************************************************************)
(* The change batch ensureRoute53RecordSet builds for host and ips.        *)
(***************************************************************************)
\* mutant: only the first address becomes a value
resourceRecordsFirst(ips) == [k \in 1..1 |-> [Value |-> IPString(ips[k])]]

resourceRecords(ips) == [k \in 1..Len(ips) |-> [Value |-> IPString(ips[k])]]

changeFor(host, ips) ==
    [Action |-> "UPSERT",
     Name |-> host,
     ResourceRecords |-> resourceRecords(ips),
     TTL |-> recordTTL,
     Type |-> "A"]

changeInput(host, ips, zoneID) ==
    [Changes |-> <<changeFor(host, ips)>>, HostedZoneId |-> zoneID]

(***************************************************************************)
(* Health checks.  A probe answer is what httpClient.Do returns:           *)
(* [err, StatusCode].  Trials 1..3 use http, trials 4..6 https.            *)
(***************************************************************************)
passRate == healthCheckSuccess * Len(schemes)
Trials == 1..passRate

Responses ==
    { [err |-> TRUE, StatusCode |-> 0],
      [err |-> FALSE, StatusCode |-> 200],
      [err |-> FALSE, StatusCode |-> 400] }

schemeOf(k) == schemes[((k - 1) \div healthCheckSuccess) + 1]

\* http.NewRequest(GET, scheme://u): fails when the URL does not parse
newRequestErr(scheme, u) ==
    IF u \in IPv4Texts \/ u = "<nil>" THEN nil ELSE Errorf("invalid URL")

\* mutant: the status of the answer is not looked at
trialSuccessAnyStatus(scheme, u, res) ==
    IF newRequestErr(scheme, u) # nil THEN 0
    ELSE IF res.err THEN 0
    ELSE 1

\* what one trial adds to the success counter
trialSuccess(scheme, u, res) ==
    IF newRequestErr(scheme, u) # nil THEN 0
    ELSE IF res.err THEN 0
    ELSE IF res.StatusCode # statusOK THEN 0
    ELSE 1

RECURSIVE successCount(_, _, _)
successCount(u, responses, k) ==
    IF k = 0 THEN 0
    ELSE successCount(u, responses, k - 1) + trialSuccess(schemeOf(k), u, responses[k])

\* the error classes of the earlier revisions, wrapped with %w by the
\* sequential one
errHealthCheckRequest == Errorf("error performing one or more health checks")
errHealthCheckStatus == Errorf("invalid status code returned from one or more health checks")

\* mutant: the verdict wraps the class of the failure, as the sequential
\* revision did
verdictWithClass(success) ==
    IF success # passRate
    THEN ErrorfCount("failed health checks", passRate - success) \o errHealthCheckRequest
    ELSE nil

\* the verdict after wg.Wait()
verdict(success) ==
    IF success # passRate
    THEN ErrorfCount("failed health checks", passRate - success)
    ELSE nil

\* the whole check, given the answers the six trials receive
ensureHostHealthChecks(ip, host, responses) ==
    LET p == urlParse(IPString(ip))
    IN  IF p.err # nil
        THEN Wrap("error parsing host url", p.err)
        ELSE verdict(successCount(p.u, responses, passRate))

(***************************************************************************)
(* State.                                                                  *)
(***************************************************************************)
VARIABLES
    records,        \* the configured record names (AWS_ROUTE53_RECORDS)
    ec2Instances,   \* EC2: the reservations DescribeInstances lists
    hostedZones,    \* Route53: the zones ListHostedZones lists
    recordSets,     \* Route53: the values of record set <<zone id, name>>
    mainPc,         \* main: "select", "poll" or "exited"
    exitCode,       \* the status the process exited with
    stop,           \* signals buffered in the stop channel (capacity 1)
    tick,           \* ticks buffered in the ticker channel (capacity 1)
    pollPc,         \* poll: "idle", "session", "describe", "spawn", "returned",
                    \* "panicked"
    pollLog,        \* the last message poll itself logged
    pollErr,        \* poll: the error of the inventory query
    ips,            \* poll: the addresses discovered
    spawned,        \* poll: record goroutines started so far
    wg,             \* poll: the WaitGroup counter
    task,           \* the record goroutines, by index into records
    passed,         \* per task: addresses whose check returned nil this cycle
    probes,         \* per task: health checks run this cycle
    listCalls,      \* per task: ListHostedZones calls this cycle
    changeCalls,    \* per task: ChangeResourceRecordSets inputs this cycle
    hcPc,           \* ensureHostHealthChecks: "idle", "start", "spawn", "returned"
    hcIP,           \* ensureHostHealthChecks: the ip argument
    hcHost,         \* ensureHostHealthChecks: the host argument
    hcU,            \* ensureHostHealthChecks: the parsed url
    hcNext,         \* ensureHostHealthChecks: the next trial the loops start
    hcWg,           \* ensureHostHealthChecks: the WaitGroup counter
    success,        \* ensureHostHealthChecks: the success counter (uint32)
    hcErr,          \* ensureHostHealthChecks: the error returned
    trial           \* the trial goroutines of the check, by trial number

envVars == <<records, ec2Instances, hostedZones, recordSets>>
mainVars == <<mainPc, exitCode, stop, tick>>
pollVars == <<pollPc, pollLog, pollErr, ips, spawned, wg>>
taskVars == <<task, passed, probes, listCalls, changeCalls>>
hcVars == <<hcPc, hcIP, hcHost, hcU, hcNext, hcWg, success, hcErr, trial>>
vars == <<envVars, mainVars, pollVars, taskVars, hcVars>>

Tasks == DOMAIN records

idleTask == [pc |-> "idle", i |-> 0, healthy |-> <<>>, listErr |-> nil,
             zoneID |-> "", err |-> nil, log |-> ""]

\* Route53 holds no values for a record set that was never upserted
NoValues == <<>>

(***************************************************************************)
(* The deployment the control loop is checked on: two records, the second  *)
(* a subdomain of the first, and provider answers that cover an empty      *)
(* inventory, skipped instances, a missing zone and nested zones.          *)
(***************************************************************************)
recordApex == <<"a">>
recordSub == <<"a", ".", "a">>
configuredRecords == <<recordApex, recordSub>>

zoneApex == [Id |-> "zone-1", Name |-> <<"a", ".">>]
zoneSub == [Id |-> "zone-2", Name |-> <<"a", ".", "a", ".">>]
ZoneListings == { <<zoneApex, zoneSub>>, <<zoneSub>> }

Instance(state, addr) == [State |-> state, PublicIpAddress |-> addr]
EC2Listings ==
    { << <<Instance("running", "10.0.0.1"), Instance("running", "10.0.0.2")>> >>,
      << <<Instance("running", "10.0.0.1")>>, <<Instance("terminated", "10.0.0.2")>> >>,
      << <<Instance("stopping", "10.0.0.1"), Instance("running", "")>> >> }

ZoneIds == <<"zone-1", "zone-2", "zone-3", "zone-4">>

\* Route53 with no record set upserted yet
noRecordSets == [key \in {} |-> NoValues]

\* the answers the six trials of one check may receive
okResponse == [err |-> FALSE, StatusCode |-> 200]
ProbeScenarios ==
    {[k \in Trials |-> okResponse]}
    \cup {[k \in Trials |-> IF k = j THEN r ELSE okResponse] : j \in Trials, r \in Responses}
    \cup {[k \in Trials |-> r] : r \in Responses}

\* no quorum check is being traced
idleTrial == [pc |-> "idle", scheme |-> "", sent |-> "",
              res |-> [err |-> FALSE, StatusCode |-> 0]]

hcIdle ==
    /\ hcPc = "idle"
    /\ hcIP = NilIP
    /\ hcHost = NoName
    /\ hcU = ""
    /\ hcNext = 0
    /\ hcWg = 0
    /\ success = 0
    /\ hcErr = nil
    /\ trial = [k \in Trials |-> idleTrial]

Init ==
    /\ records = configuredRecords
    /\ ec2Instances \in EC2Listings
    /\ hostedZones \in ZoneListings
    /\ recordSets = noRecordSets
    /\ mainPc = "select"
    /\ exitCode = 0
    /\ stop = 0
    /\ tick = 0
    /\ pollPc = "idle"
    /\ pollLog = ""
    /\ pollErr = nil
    /\ ips = <<>>
    /\ spawned = 0
    /\ wg = 0
    /\ task = [t \in DOMAIN configuredRecords |-> idleTask]
    /\ passed = [t \in DOMAIN configuredRecords |-> {}]
    /\ probes = [t \in DOMAIN configuredRecords |-> 0]
    /\ listCalls = [t \in DOMAIN configuredRecords |-> 0]
    /\ changeCalls = [t \in DOMAIN configuredRecords |-> <<>>]
    /\ hcIdle

(***************************************************************************)
(* The environment: the ticker, the stop signal, the providers' data.      *)
(***************************************************************************)
\* mutant: the ticker channel queues a second tick behind the first
TickQueued ==
    /\ mainPc # "exited"
    /\ tick < 2
    /\ tick' = tick + 1
    /\ UNCHANGED <<hcVars, envVars, mainPc, exitCode, stop, pollVars, taskVars>>

\* the ticker sends on its channel of capacity 1 and drops the tick if full
Tick ==
    /\ mainPc # "exited"
    /\ tick = 0
    /\ tick' = 1
    /\ UNCHANGED <<hcVars, envVars, mainPc, exitCode, stop, pollVars, taskVars>>

\* SIGINT or SIGTERM: signal.Notify sends without blocking on capacity 1
Signal ==
    /\ mainPc # "exited"
    /\ stop = 0
    /\ stop' = 1
    /\ UNCHANGED <<hcVars, envVars, mainPc, exitCode, tick, pollVars, taskVars>>

\* instances start, stop and change address between two inventory queries
EC2Change ==
    /\ mainPc = "select"
    /\ ec2Instances' \in EC2Listings \ {ec2Instances}
    /\ UNCHANGED <<hcVars, records, hostedZones, recordSets, mainVars, pollVars, taskVars>>

\* zones are created and deleted between two cycles
ZonesChange ==
    /\ mainPc = "select"
    /\ hostedZones' \in ZoneListings \ {hostedZones}
    /\ UNCHANGED <<hcVars, records, ec2Instances, recordSets, mainVars, pollVars, taskVars>>

(***************************************************************************)
(* main: the select loop.                                                  *)
(***************************************************************************)
\* mutant: the process exits as soon as the signal arrives
MainStopAtOnce ==
    /\ mainPc # "exited"
    /\ stop = 1
    /\ stop' = 0
    /\ mainPc' = "exited"
    /\ \E shutdownFails \in BOOLEAN : exitCode' = IF shutdownFails THEN 1 ELSE 0
    /\ UNCHANGED <<hcVars, envVars, tick, pollVars, taskVars>>

\* mutant: the select takes the stop branch only when no tick is ready
MainStopWhenNoTick ==
    /\ mainPc = "select"
    /\ tick = 0
    /\ stop = 1
    /\ stop' = 0
    /\ mainPc' = "exited"
    /\ \E shutdownFails \in BOOLEAN : exitCode' = IF shutdownFails THEN 1 ELSE 0
    /\ UNCHANGED <<hcVars, envVars, tick, pollVars, taskVars>>

\* case <-stop: stop the ticker, shut the http server down, exit; a failed
\* shutdown is fatal (exit status 1)
MainStop ==
    /\ mainPc = "select"
    /\ stop = 1
    /\ stop' = 0
    /\ mainPc' = "exited"
    /\ \E shutdownFails \in BOOLEAN : exitCode' = IF shutdownFails THEN 1 ELSE 0
    /\ UNCHANGED <<hcVars, envVars, tick, pollVars, taskVars>>

\* mutant: poll is started in the background on every tick
MainTickInBackground ==
    /\ mainPc # "exited"
    /\ tick = 1
    /\ tick' = 0
    /\ mainPc' = "poll"
    /\ pollPc' = "session"
    /\ pollLog' = ""
    /\ pollErr' = nil
    /\ ips' = <<>>
    /\ spawned' = 0
    /\ wg' = 0
    /\ task' = [t \in Tasks |-> idleTask]
    /\ passed' = [t \in Tasks |-> {}]
    /\ probes' = [t \in Tasks |-> 0]
    /\ listCalls' = [t \in Tasks |-> 0]
    /\ changeCalls' = [t \in Tasks |-> <<>>]
    /\ UNCHANGED <<hcVars, envVars, exitCode, stop>>

\* mutant: the healthy lists of the last cycle are kept by the next one
MainTickKeepHealthy ==
    /\ mainPc = "select"
    /\ tick = 1
    /\ tick' = 0
    /\ mainPc' = "poll"
    /\ pollPc' = "session"
    /\ pollLog' = ""
    /\ pollErr' = nil
    /\ ips' = <<>>
    /\ spawned' = 0
    /\ wg' = 0
    /\ task' = [t \in Tasks |-> [idleTask EXCEPT !.healthy = task[t].healthy]]
    /\ passed' = [t \in Tasks |-> {}]
    /\ probes' = [t \in Tasks |-> 0]
    /\ listCalls' = [t \in Tasks |-> 0]
    /\ changeCalls' = [t \in Tasks |-> <<>>]
    /\ UNCHANGED <<hcVars, envVars, exitCode, stop>>

\* mutant: the tick branch is taken only when no stop signal is pending
MainTickUnlessStop ==
    /\ mainPc = "select"
    /\ stop = 0
    /\ tick = 1
    /\ tick' = 0
    /\ mainPc' = "poll"
    /\ pollPc' = "session"
    /\ pollLog' = ""
    /\ pollErr' = nil
    /\ ips' = <<>>
    /\ spawned' = 0
    /\ wg' = 0
    /\ task' = [t \in Tasks |-> idleTask]
    /\ passed' = [t \in Tasks |-> {}]
    /\ probes' = [t \in Tasks |-> 0]
    /\ listCalls' = [t \in Tasks |-> 0]
    /\ changeCalls' = [t \in Tasks |-> <<>>]
    /\ UNCHANGED <<hcVars, envVars, exitCode, stop>>

\* case <-t.C: poll(region, tag, records)
MainTick ==
    /\ mainPc = "select"
    /\ tick = 1
    /\ tick' = 0
    /\ mainPc' = "poll"
    /\ pollPc' = "session"
    /\ pollLog' = ""
    /\ pollErr' = nil
    /\ ips' = <<>>
    /\ spawned' = 0
    /\ wg' = 0
    /\ task' = [t \in Tasks |-> idleTask]
    /\ passed' = [t \in Tasks |-> {}]
    /\ probes' = [t \in Tasks |-> 0]
    /\ listCalls' = [t \in Tasks |-> 0]
    /\ changeCalls' = [t \in Tasks |-> <<>>]
    /\ UNCHANGED <<hcVars, envVars, exitCode, stop>>

(***************************************************************************)
(* poll                                                                    *)
(***************************************************************************)
pollReturn(msg) ==
    /\ pollLog' = msg
    /\ pollPc' = "returned"
    /\ mainPc' = "select"

\* the exit status of a Go program that ends in a panic
exitPanic == 2

\* newAWSManager: session.Must panics when session.NewSession returns an
\* error (a shared credentials file that does not load, a CA bundle that
\* cannot be read), and the panic ends the process
PollSession ==
    /\ mainPc = "poll"
    /\ pollPc = "session"
    /\ \E sessionFails \in BOOLEAN :
         IF sessionFails
         THEN /\ pollPc' = "panicked"
              /\ mainPc' = "exited"
              /\ exitCode' = exitPanic
         ELSE /\ pollPc' = "describe"
              /\ UNCHANGED <<mainPc, exitCode>>
    /\ UNCHANGED <<hcVars, envVars, stop, tick, pollLog, pollErr, ips, spawned, wg,
                   taskVars>>

\* mutant: an empty address set does not end the cycle
abortMessageOnErrorOnly(got) ==
    IF got.err # nil THEN "error getting public ip addrs" ELSE ""

\* the message of the early return poll takes on this inventory answer, ""
\* when it goes on
abortMessage(got) ==
    IF got.err # nil THEN "error getting public ip addrs"
    ELSE IF Len(got.ips) = 0 THEN "no ip addrs found, will not update"
    ELSE ""

\* the inventory query and the two early returns
PollDescribe ==
    /\ mainPc = "poll"
    /\ pollPc = "describe"
    /\ \E fails \in BOOLEAN :
         LET res == IF fails
                    THEN [err |-> awsError, Reservations |-> <<>>]
                    ELSE [err |-> nil, Reservations |-> ec2Instances]
             got == getTaggedEC2PublicIPAddrs(res)
         IN  /\ pollErr' = got.err
             /\ IF abortMessage(got) # ""
                THEN pollReturn(abortMessage(got)) /\ UNCHANGED ips
                ELSE /\ ips' = got.ips
                     /\ pollPc' = "spawn"
                     /\ UNCHANGED <<pollLog, mainPc>>
    /\ UNCHANGED <<hcVars, envVars, exitCode, stop, tick, spawned, wg, taskVars>>

\* one iteration of the loop over records: wg.Add(1); go func(record)
PollSpawn ==
    /\ mainPc = "poll"
    /\ pollPc = "spawn"
    /\ spawned < Len(records)
    /\ spawned' = spawned + 1
    /\ wg' = wg + 1
    /\ task' = [task EXCEPT ![spawned + 1] = [@ EXCEPT !.pc = "check", !.i = 1]]
    /\ UNCHANGED <<hcVars, envVars, mainVars, pollPc, pollLog, pollErr, ips,
                   passed, probes, listCalls, changeCalls>>

\* mutant: poll returns as soon as one record goroutine has finished
PollWaitFirst ==
    /\ mainPc = "poll"
    /\ pollPc = "spawn"
    /\ spawned = Len(records)
    /\ wg < Len(records)
    /\ pollReturn("all records are up to date")
    /\ UNCHANGED <<hcVars, envVars, exitCode, stop, tick, pollErr, ips, spawned, wg,
                   taskVars>>

\* wg.Wait() returns once the counter is zero
PollWait ==
    /\ mainPc = "poll"
    /\ pollPc = "spawn"
    /\ spawned = Len(records)
    /\ wg = 0
    /\ pollReturn("all records are up to date")
    /\ UNCHANGED <<hcVars, envVars, exitCode, stop, tick, pollErr, ips, spawned, wg,
                   taskVars>>

(***************************************************************************)
(* The record goroutine of poll.                                           *)
(***************************************************************************)
\* mutant: the address is appended whatever its check returned
appendHealthyAlways(healthy, ip, err) == Append(healthy, ip)

\* the body of the loop over ips: a failed check skips the address
appendHealthy(healthy, ip, err) ==
    IF err # nil THEN healthy ELSE Append(healthy, ip)

\* mutant: the first failed check ends the loop over ips
TaskCheckBreak(t) ==
    /\ mainPc = "poll"
    /\ task[t].pc = "check"
    /\ task[t].i <= Len(ips)
    /\ \E responses \in ProbeScenarios :
         LET ip == ips[task[t].i]
             err == ensureHostHealthChecks(ip, records[t], responses)
         IN  /\ task' = [task EXCEPT ![t].healthy = appendHealthy(@, ip, err),
                                     ![t].i = IF err # nil THEN Len(ips) + 1 ELSE @ + 1]
             /\ passed' = [passed EXCEPT ![t] = IF err = nil THEN @ \cup {ip} ELSE @]
    /\ probes' = [probes EXCEPT ![t] = @ + 1]
    /\ UNCHANGED <<hcVars, envVars, mainVars, pollVars, listCalls, changeCalls>>

\* one iteration of the loop over ips
TaskCheck(t) ==
    /\ mainPc = "poll"
    /\ task[t].pc = "check"
    /\ task[t].i <= Len(ips)
    /\ \E responses \in ProbeScenarios :
         LET ip == ips[task[t].i]
             err == ensureHostHealthChecks(ip, records[t], responses)
         IN  /\ task' = [task EXCEPT ![t].healthy = appendHealthy(@, ip, err),
                                     ![t].i = @ + 1]
             /\ passed' = [passed EXCEPT ![t] = IF err = nil THEN @ \cup {ip} ELSE @]
    /\ probes' = [probes EXCEPT ![t] = @ + 1]
    /\ UNCHANGED <<hcVars, envVars, mainVars, pollVars, listCalls, changeCalls>>

\* mutant: the return on an empty healthy list skips wg.Done()
TaskDecideNoDone(t) ==
    /\ mainPc = "poll"
    /\ task[t].pc = "check"
    /\ task[t].i > Len(ips)
    /\ IF Len(task[t].healthy) = 0
       THEN task' = [task EXCEPT ![t].pc = "done",
                       ![t].log = "all health checks failed, will not update"]
       ELSE task' = [task EXCEPT ![t].pc = "ensure"]
    /\ UNCHANGED <<hcVars, envVars, mainVars, pollVars, passed, probes, listCalls,
                   changeCalls>>

\* after the loop: return when nothing is healthy, else call
\* ensureRoute53RecordSet(record, healthy)
TaskDecide(t) ==
    /\ mainPc = "poll"
    /\ task[t].pc = "check"
    /\ task[t].i > Len(ips)
    /\ IF Len(task[t].healthy) = 0
       THEN /\ task' = [task EXCEPT ![t].pc = "done",
                          ![t].log = "all health checks failed, will not update"]
            /\ wg' = wg - 1
       ELSE /\ task' = [task EXCEPT ![t].pc = "ensure"]
            /\ UNCHANGED wg
    /\ UNCHANGED <<hcVars, envVars, mainVars, pollPc, pollLog, pollErr, ips, spawned,
                   passed, probes, listCalls, changeCalls>>

\* ensureRoute53RecordSet returned: log the outcome, wg.Done()
TaskReturn(t) ==
    /\ mainPc = "poll"
    /\ task[t].pc = "ensured"
    /\ task' = [task EXCEPT ![t].pc = "done",
                  ![t].log = IF task[t].err # nil
                             THEN "error performing change on resource record"
                             ELSE "successfully updated record with healthy ip addrs"]
    /\ wg' = wg - 1
    /\ UNCHANGED <<hcVars, envVars, mainVars, pollPc, pollLog, pollErr, ips, spawned,
                   passed, probes, listCalls, changeCalls>>

(***************************************************************************)
(* ensureRoute53RecordSet(records[t], task[t].healthy)                     *)
(***************************************************************************)
\* mutant: an empty address list is let through
noIPsErrNever(addrs) == nil

\* the guard on an empty address list
noIPsErr(addrs) == IF Len(addrs) = 0 THEN Errorf("no ips provided") ELSE nil

EnsureBegin(t) ==
    /\ task[t].pc = "ensure"
    /\ LET err == noIPsErr(task[t].healthy)
       IN  IF err # nil
           THEN task' = [task EXCEPT ![t].pc = "ensured", ![t].err = err]
           ELSE task' = [task EXCEPT ![t].pc = "list"]
    /\ UNCHANGED <<hcVars, envVars, mainVars, pollVars, passed, probes, listCalls, changeCalls>>

\* mutant: a failed zone resolution is recorded but does not return
EnsureListNoReturn(t) ==
    /\ task[t].pc = "list"
    /\ listCalls' = [listCalls EXCEPT ![t] = @ + 1]
    /\ \E fails \in BOOLEAN :
         LET zones == IF fails
                      THEN [err |-> awsError, HostedZones |-> <<>>]
                      ELSE [err |-> nil, HostedZones |-> hostedZones]
             got == getRoute53HostedZoneID(zones, records[t])
         IN  task' = [task EXCEPT ![t].pc = "change", ![t].zoneID = got.id,
                        ![t].listErr = zones.err,
                        ![t].err = IF got.err # nil
                                   THEN Wrap("error getting route53 hosted zone", got.err)
                                   ELSE nil]
    /\ UNCHANGED <<hcVars, envVars, mainVars, pollVars, passed, probes, changeCalls>>

\* getRoute53HostedZoneID: the ListHostedZones call and the resolution
EnsureList(t) ==
    /\ task[t].pc = "list"
    /\ listCalls' = [listCalls EXCEPT ![t] = @ + 1]
    /\ \E fails \in BOOLEAN :
         LET zones == IF fails
                      THEN [err |-> awsError, HostedZones |-> <<>>]
                      ELSE [err |-> nil, HostedZones |-> hostedZones]
             got == getRoute53HostedZoneID(zones, records[t])
         IN  IF got.err # nil
             THEN task' = [task EXCEPT ![t].pc = "ensured", ![t].listErr = zones.err,
                             ![t].err = Wrap("error getting route53 hosted zone", got.err)]
             ELSE task' = [task EXCEPT ![t].pc = "change", ![t].zoneID = got.id]
    /\ UNCHANGED <<hcVars, envVars, mainVars, pollVars, passed, probes, changeCalls>>

\* Route53 applies an UPSERT: the record set takes the values of the change
applyChange(sets, input) ==
    LET change == input.Changes[1]
        key == <<input.HostedZoneId, change.Name>>
        values == [k \in DOMAIN change.ResourceRecords |-> change.ResourceRecords[k].Value]
    IN  [k \in DOMAIN sets \cup {key} |-> IF k = key THEN values ELSE sets[k]]

\* mutant: the provider's error is returned as it came
EnsureChangeBareError(t) ==
    /\ task[t].pc = "change"
    /\ LET input == changeInput(records[t], task[t].healthy, task[t].zoneID)
       IN  /\ changeCalls' = [changeCalls EXCEPT ![t] = Append(@, input)]
           /\ \E fails \in BOOLEAN :
                IF fails
                THEN /\ task' = [task EXCEPT ![t].pc = "ensured", ![t].err = awsError]
                     /\ UNCHANGED recordSets
                ELSE /\ task' = [task EXCEPT ![t].pc = "ensured"]
                     /\ recordSets' = applyChange(recordSets, input)
    /\ UNCHANGED <<hcVars, records, ec2Instances, hostedZones, mainVars, pollVars,
                   passed, probes, listCalls>>

\* the ChangeResourceRecordSets call
EnsureChange(t) ==
    /\ task[t].pc = "change"
    /\ LET input == changeInput(records[t], task[t].healthy, task[t].zoneID)
       IN  /\ changeCalls' = [changeCalls EXCEPT ![t] = Append(@, input)]
           /\ \E fails \in BOOLEAN :
                IF fails
                THEN /\ task' = [task EXCEPT ![t].pc = "ensured",
                                   ![t].err = Wrap("error performing change to record set",
                                                   awsError)]
                     /\ UNCHANGED recordSets
                ELSE /\ task' = [task EXCEPT ![t].pc = "ensured"]
                     /\ recordSets' = applyChange(recordSets, input)
    /\ UNCHANGED <<hcVars, records, ec2Instances, hostedZones, mainVars, pollVars,
                   passed, probes, listCalls>>

(***************************************************************************)
(* The daemon.                                                             *)
(***************************************************************************)
Next ==
    \/ Tick
    \/ Signal
    \/ EC2Change
    \/ ZonesChange
    \/ MainStop
    \/ MainTick
    \/ PollSession
    \/ PollDescribe
    \/ PollSpawn
    \/ PollWait
    \/ \E t \in Tasks : TaskCheck(t)
    \/ \E t \in Tasks : TaskDecide(t)
    \/ \E t \in Tasks : EnsureBegin(t)
    \/ \E t \in Tasks : EnsureList(t)
    \/ \E t \in Tasks : EnsureChange(t)
    \/ \E t \in Tasks : TaskReturn(t)

Spec == Init /\ [][Next]_vars

(***************************************************************************)
(* The daemon under the scheduling Go provides, while the providers' data  *)
(* stays as it is: a goroutine that can take a step takes it (every        *)
(* provider call and probe is taken to return), and a select that finds    *)
(* several cases ready picks one at random, so a case that is ready again  *)
(* and again is taken in the end.                                          *)
(***************************************************************************)
NextLive ==
    \/ Tick
    \/ Signal
    \/ MainStop
    \/ MainTick
    \/ PollSession
    \/ PollDescribe
    \/ PollSpawn
    \/ PollWait
    \/ \E t \in Tasks : TaskCheck(t)
    \/ \E t \in Tasks : TaskDecide(t)
    \/ \E t \in Tasks : EnsureBegin(t)
    \/ \E t \in Tasks : EnsureList(t)
    \/ \E t \in Tasks : EnsureChange(t)
    \/ \E t \in Tasks : TaskReturn(t)

Fairness ==
    /\ WF_vars(PollSession)
    /\ WF_vars(PollDescribe)
    /\ WF_vars(PollSpawn)
    /\ WF_vars(PollWait)
    /\ \A t \in DOMAIN configuredRecords :
         /\ WF_vars(TaskCheck(t))
         /\ WF_vars(TaskDecide(t))
         /\ WF_vars(EnsureBegin(t))
         /\ WF_vars(EnsureList(t))
         /\ WF_vars(EnsureChange(t))
         /\ WF_vars(TaskReturn(t))
    /\ SF_vars(MainStop)

\* inventories of at most one healthy candidate
InitLive == Init /\ Len(reservationIPs(ec2Instances)) <= 1

SpecLive == InitLive /\ [][NextLive]_vars /\ Fairness

(***************************************************************************)
(* ensureRoute53RecordSet called on its own, as aws_test.go calls it: any  *)
(* record name, any zone listing and an address list that may be empty.    *)
(***************************************************************************)
Chars == {"a", "."}

RECURSIVE SeqsUpTo(_, _)
SeqsUpTo(S, n) ==
    IF n = 0 THEN {<<>>}
    ELSE LET shorter == SeqsUpTo(S, n - 1)
         IN  shorter \cup {Append(s, x) : s \in shorter, x \in S}

\* a domain name: labels separated by single dots, the last dot optional;
\* the empty name is what a nil zone name or an empty record list reads as
IsDomainName(s) ==
    /\ s # <<>> => s[1] # "."
    /\ \A k \in 1..(Len(s) - 1) : ~(s[k] = "." /\ s[k + 1] = ".")

Names == {s \in SeqsUpTo(Chars, MaxNameLen) : IsDomainName(s)}

\* listings whose k-th zone has the k-th id or none, and any name
ZoneListingsOfLen(n) ==
    {[k \in 1..n |-> [Id |-> IF k \in withId THEN ZoneIds[k] ELSE "", Name |-> names[k]]] :
        withId \in SUBSET (1..n), names \in [1..n -> Names]}

AllZoneListings == UNION {ZoneListingsOfLen(n) : n \in 0..MaxZones}

AddressLists == {<<>>, <<ip2, ip1>>}

\* one call of ensureRoute53RecordSet about to be made on a fresh manager
InitEnsure(hosts, listings) ==
    /\ records \in {<<host>> : host \in hosts}
    /\ ec2Instances = <<>>
    /\ hostedZones \in listings
    /\ recordSets = noRecordSets
    /\ mainPc = "test"
    /\ exitCode = 0
    /\ stop = 0
    /\ tick = 0
    /\ pollPc = "idle"
    /\ pollLog = ""
    /\ pollErr = nil
    /\ ips = <<>>
    /\ spawned = 0
    /\ wg = 0
    /\ task \in {[t \in {1} |-> [idleTask EXCEPT !.pc = "ensure", !.healthy = addrs]] :
                    addrs \in AddressLists}
    /\ passed = [t \in {1} |-> {}]
    /\ probes = [t \in {1} |-> 0]
    /\ listCalls = [t \in {1} |-> 0]
    /\ changeCalls = [t \in {1} |-> <<>>]
    /\ hcIdle

InitRoute53 == InitEnsure(Names, AllZoneListings)

(***************************************************************************)
(* The same call on listings of three zones whose suffixes end the host    *)
(* and differ in length by at most one character, with or without the      *)
(* trailing dot.                                                           *)
(***************************************************************************)
TieNames == {<<"a">>, <<"a", ".">>, <<"a", "a">>, <<"a", "a", ".">>}
TieListings ==
    {[k \in DOMAIN names |-> [Id |-> ZoneIds[k], Name |-> names[k]]] :
        names \in TieNames \X TieNames \X TieNames}

InitTies == InitEnsure({<<"a", "a">>, <<"a", ".", "a">>}, TieListings)

NextRoute53 ==
    \/ \E t \in Tasks : EnsureBegin(t)
    \/ \E t \in Tasks : EnsureList(t)
    \/ \E t \in Tasks : EnsureChange(t)

SpecRoute53 == InitRoute53 /\ [][NextRoute53]_vars

SpecTies == InitTies /\ [][NextRoute53]_vars

(***************************************************************************)
(* The inventory query on its own, as aws_test.go calls it: any listing of *)
(* instances in any state, with or without a parseable public address,     *)
(* split over two reservations.                                            *)
(***************************************************************************)
AddrTexts == {"10.0.0.1", "10.0.0.2", "::ffff:10.0.0.1", ""}
Instances == {Instance(state, addr) : state \in InstanceStates, addr \in AddrTexts}

AllEC2Listings ==
    {<<SubSeq(flat, 1, cut), SubSeq(flat, cut + 1, Len(flat))>> :
        <<flat, cut>> \in {fc \in SeqsUpTo(Instances, MaxInstances) \X (0..MaxInstances) :
                             fc[2] <= Len(fc[1])}}

InitEC2 ==
    /\ records = configuredRecords
    /\ ec2Instances \in AllEC2Listings
    /\ hostedZones = <<>>
    /\ recordSets = noRecordSets
    /\ mainPc = "poll"
    /\ exitCode = 0
    /\ stop = 0
    /\ tick = 0
    /\ pollPc = "describe"
    /\ pollLog = ""
    /\ pollErr = nil
    /\ ips = <<>>
    /\ spawned = 0
    /\ wg = 0
    /\ task = [t \in DOMAIN configuredRecords |-> idleTask]
    /\ passed = [t \in DOMAIN configuredRecords |-> {}]
    /\ probes = [t \in DOMAIN configuredRecords |-> 0]
    /\ listCalls = [t \in DOMAIN configuredRecords |-> 0]
    /\ changeCalls = [t \in DOMAIN configuredRecords |-> <<>>]
    /\ hcIdle

NextEC2 == PollDescribe

SpecEC2 == InitEC2 /\ [][NextEC2]_vars

(***************************************************************************)
(* ensureHostHealthChecks, goroutine by goroutine: the call parses the     *)
(* address, starts one goroutine per trial, waits for all of them and      *)
(* compares the counter with the pass rate.                                *)
(***************************************************************************)
otherVars == <<envVars, mainVars, pollVars, taskVars>>

\* url.Parse(ip.String()), and the early return when it fails
HCParse ==
    /\ hcPc = "start"
    /\ LET p == urlParse(IPString(hcIP))
       IN  IF p.err # nil
           THEN /\ hcErr' = Wrap("error parsing host url", p.err)
                /\ hcPc' = "returned"
                /\ UNCHANGED hcU
           ELSE /\ hcU' = p.u
                /\ hcPc' = "spawn"
                /\ UNCHANGED hcErr
    /\ hcNext' = 1
    /\ UNCHANGED <<otherVars, hcIP, hcHost, hcWg, success, trial>>

\* one iteration of the two loops: wg.Add(1); go func(scheme)
HCSpawn ==
    /\ hcPc = "spawn"
    /\ hcNext <= passRate
    /\ hcWg' = hcWg + 1
    /\ trial' = [trial EXCEPT ![hcNext] = [idleTrial EXCEPT !.pc = "request",
                                                          !.scheme = schemeOf(hcNext)]]
    /\ hcNext' = hcNext + 1
    /\ UNCHANGED <<otherVars, hcPc, hcIP, hcHost, hcU, success, hcErr>>

\* mutant: the goroutine reads the scheme variable of the enclosing loop
requestSchemeOfLoop(k) ==
    IF hcNext > passRate THEN schemes[Len(schemes)] ELSE schemeOf(hcNext)

\* the scheme a trial puts in its request: the argument it was started with
requestScheme(k) == trial[k].scheme

\* a trial builds its request and performs it: the answer arrives
TrialDo(k) ==
    /\ trial[k].pc = "request"
    /\ IF newRequestErr(requestScheme(k), hcU) # nil
       THEN /\ trial' = [trial EXCEPT ![k].pc = "done"]
            /\ hcWg' = hcWg - 1
       ELSE /\ \E res \in Responses : trial' = [trial EXCEPT ![k].pc = "answered",
                                                              ![k].sent = requestScheme(k),
                                                              ![k].res = res]
            /\ UNCHANGED hcWg
    /\ UNCHANGED <<otherVars, hcPc, hcIP, hcHost, hcU, hcNext, success, hcErr>>

\* mutant: an increment of a counter that was already incremented is lost
addUint32Lost(counter, delta) == IF counter > 0 THEN counter ELSE counter + delta

\* atomic.AddUint32(&success, delta): one indivisible read-modify-write; the
\* counter holds at most passRate, far from where a uint32 wraps
addUint32(counter, delta) == counter + delta

\* a trial handles its answer: an error or a status other than 200 returns,
\* a 200 adds one to the counter; wg.Done() runs on return
TrialFinish(k) ==
    /\ trial[k].pc = "answered"
    /\ success' = addUint32(success, trialSuccess(trial[k].scheme, hcU, trial[k].res))
    /\ trial' = [trial EXCEPT ![k].pc = "done"]
    /\ hcWg' = hcWg - 1
    /\ UNCHANGED <<otherVars, hcPc, hcIP, hcHost, hcU, hcNext, hcErr>>

\* mutant: the verdict is taken once the loops have started every trial
HCWaitForLoops ==
    /\ hcPc = "spawn"
    /\ hcNext > passRate
    /\ hcErr' = verdict(success)
    /\ hcPc' = "returned"
    /\ UNCHANGED <<otherVars, hcIP, hcHost, hcU, hcNext, hcWg, success, trial>>

\* wg.Wait() returns once the counter is zero; then the verdict
HCWait ==
    /\ hcPc = "spawn"
    /\ hcNext > passRate
    /\ hcWg = 0
    /\ hcErr' = verdict(success)
    /\ hcPc' = "returned"
    /\ UNCHANGED <<otherVars, hcIP, hcHost, hcU, hcNext, hcWg, success, trial>>

InitHC ==
    /\ records = configuredRecords
    /\ ec2Instances = <<>>
    /\ hostedZones = <<>>
    /\ recordSets = noRecordSets
    /\ mainPc = "test"
    /\ exitCode = 0
    /\ stop = 0
    /\ tick = 0
    /\ pollPc = "idle"
    /\ pollLog = ""
    /\ pollErr = nil
    /\ ips = <<>>
    /\ spawned = 0
    /\ wg = 0
    /\ task = [t \in DOMAIN configuredRecords |-> idleTask]
    /\ passed = [t \in DOMAIN configuredRecords |-> {}]
    /\ probes = [t \in DOMAIN configuredRecords |-> 0]
    /\ listCalls = [t \in DOMAIN configuredRecords |-> 0]
    /\ changeCalls = [t \in DOMAIN configuredRecords |-> <<>>]
    /\ hcPc = "start"
    /\ hcIP \in {ip1, ip6}
    /\ hcHost \in {recordApex, recordSub}
    /\ hcU = ""
    /\ hcNext = 0
    /\ hcWg = 0
    /\ success = 0
    /\ hcErr = nil
    /\ trial = [k \in Trials |-> idleTrial]

NextHC ==
    \/ HCParse
    \/ HCSpawn
    \/ \E k \in Trials : TrialDo(k)
    \/ \E k \in Trials : TrialFinish(k)
    \/ HCWait

SpecHC == InitHC /\ [][NextHC]_vars

(***************************************************************************)
(* The daemon together with ensureRoute53RecordSet called on its own: the  *)
(* calls either caller makes to Route53.                                   *)
(***************************************************************************)
InitCalls == Init \/ InitEnsure({recordApex, recordSub}, ZoneListings \cup {<<>>})

SpecCalls == InitCalls /\ [][Next]_vars

(***************************************************************************)
(* Properties.                                                             *)
(***************************************************************************)
Range(s) == {s[k] : k \in DOMAIN s}

\* the values one ChangeResourceRecordSets input writes
valuesOf(input) ==
    {input.Changes[1].ResourceRecords[k].Value : k \in DOMAIN input.Changes[1].ResourceRecords}

\* C1: every value of an upsert issued for a record in a cycle is the text
\* of an address discovered in that cycle whose health check against that
\* record returned nil in that cycle.
C1_UpsertOnlyHealthy ==
    \A t \in Tasks : \A c \in DOMAIN changeCalls[t] :
        /\ changeCalls[t][c].Changes[1].Name = records[t]
        /\ \A v \in valuesOf(changeCalls[t][c]) :
             \E ip \in passed[t] \cap Range(ips) : IPString(ip) = v

\* an upsert was issued for a record one of whose addresses failed its check
C1_Witness ==
    \E t \in Tasks :
        /\ Len(changeCalls[t]) = 1
        /\ probes[t] = 2
        /\ Cardinality(passed[t]) = 1

\* the trials that received an answer with status 200
okTrials == {k \in Trials : trial[k].pc \in {"answered", "done"}
                            /\ ~trial[k].res.err
                            /\ trial[k].res.StatusCode = 200}

\* C2: the check returns nil exactly when all six trials, three over http
\* and three over https, received an answer with status 200.
C2_NilIffAllTrialsOK ==
    hcPc = "returned" =>
        /\ hcErr = nil <=> okTrials = Trials
        /\ hcErr = nil =>
             /\ Cardinality({k \in Trials : trial[k].scheme = "http"}) = 3
             /\ Cardinality({k \in Trials : trial[k].scheme = "https"}) = 3

\* the check returned an error because a single trial failed
C2_Witness ==
    /\ hcPc = "returned"
    /\ hcErr # nil
    /\ Cardinality(okTrials) = 5

\* the first frame of an error, "" for nil
outerMsg(err) == IF err = nil THEN "" ELSE err[1].msg

\* ensureRoute53RecordSet has returned to the caller of task t
ensureReturned(t) ==
    \/ task[t].pc = "ensured"
    \/ task[t].pc = "done" /\ task[t].log # "all health checks failed, will not update"

\* C3: a record whose healthy set is empty gets no Route53 call, neither
\* ListHostedZones nor ChangeResourceRecordSets, and ensureRoute53RecordSet
\* given an empty address list returns "no ips provided" before any call.
C3_NoCallsWhenNoneHealthy ==
    \A t \in Tasks :
        task[t].healthy = <<>> =>
            /\ listCalls[t] = 0
            /\ changeCalls[t] = <<>>
            /\ task[t].pc \notin {"list", "change"}
            /\ task[t].pc = "ensured" => task[t].err = Errorf("no ips provided")

\* in one cycle a record with no healthy address was left alone while the
\* other record was upserted
C3_Witness ==
    \E t, u \in Tasks :
        /\ task[t].pc = "done"
        /\ task[t].healthy = <<>>
        /\ probes[t] = Len(ips)
        /\ Len(ips) > 0
        /\ Len(changeCalls[u]) = 1

abortLogs == {"error getting public ip addrs", "no ip addrs found, will not update"}

\* the parseable public addresses of the running instances, in listing order
RECURSIVE flatten(_)
flatten(seqs) == IF seqs = <<>> THEN <<>> ELSE Head(seqs) \o flatten(Tail(seqs))

runningAddresses(reservations) ==
    LET contributes(instance) == /\ instance.State = "running"
                                 /\ ParseIP(instance.PublicIpAddress) # NilIP
        kept == SelectSeq(flatten(reservations), contributes)
    IN  [k \in DOMAIN kept |-> ParseIP(kept[k].PublicIpAddress)]

C4_Aborted ==
    /\ mainPc = "poll" /\ pollPc \notin {"session", "describe"}
       /\ runningAddresses(ec2Instances) = <<>>
         => pollLog \in abortLogs
    /\ pollErr # nil => pollLog = "error getting public ip addrs"
    /\ pollLog \in abortLogs =>
         /\ pollPc = "returned"
         /\ spawned = 0
         /\ \A t \in Tasks : /\ task[t].pc = "idle"
                             /\ probes[t] = 0
                             /\ listCalls[t] = 0
                             /\ changeCalls[t] = <<>>
    /\ \A t \in Tasks : task[t].pc # "idle" => ips # <<>>

C4_WriteNeedsDiscovery ==
    recordSets' # recordSets => ips # <<>> /\ pollLog \notin abortLogs /\ pollLog' \notin abortLogs

\* C4: a cycle whose inventory query fails or yields no address returns
\* before any record goroutine is started, runs no health check and makes no
\* Route53 call, and no step of such a cycle changes a record set.
C4_AbortLeavesDNS == []C4_Aborted /\ [][C4_WriteNeedsDiscovery]_vars

\* a cycle was aborted on an empty inventory after an earlier cycle had
\* written record sets
C4_Witness ==
    /\ pollPc = "returned"
    /\ pollLog = "no ip addrs found, will not update"
    /\ recordSets # noRecordSets

\* the zones of the listing whose stripped suffix is a suffix of host
stripped(zone) == TrimSuffix(zone.Name, <<".">>)
matching(host) == {k \in DOMAIN hostedZones : HasSuffix(host, stripped(hostedZones[k]))}

\* a listing as Route53 answers it: every zone has an id and a fully
\* qualified name ending in a dot
listedByRoute53 ==
    \A k \in DOMAIN hostedZones :
        /\ hostedZones[k].Id # ""
        /\ stripped(hostedZones[k]) # <<>>
        /\ HasSuffix(hostedZones[k].Name, <<".">>)

\* C5: a resolved zone id is the id of a zone whose stripped suffix is a
\* suffix of the record name and is the longest among all such zones, for
\* every listing of zones with ids and dot-terminated names.
C5_LongestSuffixZone ==
    \A t \in Tasks :
        listedByRoute53 /\ task[t].pc = "change" =>
            \E k \in matching(records[t]) :
                /\ hostedZones[k].Id = task[t].zoneID
                /\ \A j \in matching(records[t]) :
                     Len(stripped(hostedZones[j])) <= Len(stripped(hostedZones[k]))

\* C6: a call of ensureRoute53RecordSet that returns nil has issued exactly
\* one ChangeResourceRecordSets call, a call that fails on the empty list or
\* on zone resolution has issued none, and no task issues more than one.
C6_OneWritePerSuccess ==
    \A t \in Tasks :
        /\ Len(changeCalls[t]) <= 1
        /\ ensureReturned(t) /\ task[t].err = nil => Len(changeCalls[t]) = 1
        /\ outerMsg(task[t].err) \in {"no ips provided", "error getting route53 hosted zone"}
             => Len(changeCalls[t]) = 0
        /\ outerMsg(task[t].err) = "error performing change to record set"
             => Len(changeCalls[t]) = 1

\* in one cycle one record's call returned nil after its single write and the
\* other record's call failed on zone resolution without a write
C6_Witness ==
    \E t, u \in Tasks :
        /\ ensureReturned(t) /\ task[t].err = nil /\ Len(changeCalls[t]) = 1
        /\ outerMsg(task[u].err) = "error getting route53 hosted zone"
        /\ Len(changeCalls[u]) = 0

\* C7: when poll returns after a full cycle every record goroutine has
\* finished, and each record that had a healthy address and whose zone
\* resolved had its upsert issued, whatever became of the other records; if
\* the upsert succeeded Route53 holds the record's healthy addresses.
C7_RecordsIndependent ==
    pollPc = "returned" /\ pollLog = "all records are up to date" =>
        \A t \in Tasks :
            /\ task[t].pc = "done"
            /\ passed[t] # {} => listCalls[t] = 1
            /\ passed[t] # {} /\ outerMsg(task[t].err) # "error getting route53 hosted zone"
                 => /\ Len(changeCalls[t]) = 1
                    /\ changeCalls[t][1].Changes[1].Name = records[t]
            /\ passed[t] # {} /\ task[t].err = nil
                 => /\ <<task[t].zoneID, records[t]>> \in DOMAIN recordSets
                    /\ recordSets[<<task[t].zoneID, records[t]>>]
                         = [k \in DOMAIN task[t].healthy |-> IPString(task[t].healthy[k])]

\* a cycle returned in which the first record found no zone and the second
\* record was upserted
C7_Witness ==
    /\ pollPc = "returned"
    /\ pollLog = "all records are up to date"
    /\ task[1].err = Wrap("error getting route53 hosted zone",
                          ErrorfHost("no zone id found for", records[1]))
    /\ task[2].err = nil
    /\ Len(changeCalls[2]) = 1

\* C8: the addresses discovered are exactly the parsed public addresses of
\* the listed instances that are running, in listing order; instances in
\* another state add nothing and cause no error, the only error being a
\* failed DescribeInstances call.
C8_RunningAddressesOnly ==
    /\ getTaggedEC2PublicIPAddrs([err |-> nil, Reservations |-> ec2Instances])
         = [ips |-> runningAddresses(ec2Instances), err |-> nil]
    /\ pollPc # "describe" /\ pollErr = nil => ips = runningAddresses(ec2Instances)
    /\ pollErr # nil => pollErr = Wrap("error describing instances", awsError)

\* addresses were discovered from a listing that also holds an instance that
\* is not running and has a parseable address
C8_Witness ==
    /\ pollPc = "spawn"
    /\ Len(ips) = 2
    /\ \E r \in DOMAIN ec2Instances : \E k \in DOMAIN ec2Instances[r] :
         /\ ec2Instances[r][k].State = "terminated"
         /\ ParseIP(ec2Instances[r][k].PublicIpAddress) # NilIP

\* C9: when the listing succeeds and no zone matches the record, resolution
\* fails with "no zone id found for" naming that record, and no upsert is
\* issued.
C9_NoZoneNamesRecord ==
    \A t \in Tasks :
        listCalls[t] = 1 /\ task[t].listErr = nil /\ matching(records[t]) = {} =>
            /\ task[t].pc = "ensured"
            /\ task[t].err = Wrap("error getting route53 hosted zone",
                                  ErrorfHost("no zone id found for", records[t]))
            /\ changeCalls[t] = <<>>

\* resolution ran on a listing of two zones neither of which matches
C9_Witness ==
    \E t \in Tasks :
        /\ listCalls[t] = 1
        /\ task[t].listErr = nil
        /\ matching(records[t]) = {}
        /\ Len(hostedZones) = 2
        /\ records[t] # <<>>

\* C10: when ListHostedZones fails, resolution fails with "error listing
\* hosted zones" wrapping the provider's error, which is not the "no zone id
\* found" error, and no upsert is issued.
C10_ListingFailureDistinct ==
    \A t \in Tasks :
        listCalls[t] = 1 /\ task[t].listErr # nil =>
            /\ task[t].pc = "ensured"
            /\ task[t].err = Wrap("error getting route53 hosted zone",
                                  Wrap("error listing hosted zones", task[t].listErr))
            /\ Tail(task[t].err) # ErrorfHost("no zone id found for", records[t])
            /\ changeCalls[t] = <<>>

\* the listing call failed for a record that a listed zone matches
C10_Witness ==
    \E t \in Tasks :
        /\ listCalls[t] = 1
        /\ task[t].listErr = awsError
        /\ \E k \in matching(records[t]) : hostedZones[k].Id # ""

\* C11: the input of every ChangeResourceRecordSets call holds exactly one
\* change, an UPSERT of type A with TTL 60 for the host, with one value per
\* address passed in, in order, and names the zone id resolved for the host.
C11_OneUpsertChange ==
    \A t \in Tasks : \A c \in DOMAIN changeCalls[t] :
        LET input == changeCalls[t][c]
            change == input.Changes[1]
        IN  /\ Len(input.Changes) = 1
            /\ change.Action = "UPSERT"
            /\ change.Type = "A"
            /\ change.TTL = 60
            /\ change.Name = records[t]
            /\ Len(change.ResourceRecords) = Len(task[t].healthy)
            /\ \A k \in DOMAIN task[t].healthy :
                 change.ResourceRecords[k].Value = IPString(task[t].healthy[k])
            /\ input.HostedZoneId # ""
            /\ input.HostedZoneId = task[t].zoneID
            /\ \E k \in matching(records[t]) : hostedZones[k].Id = input.HostedZoneId

\* a call was made with two addresses against the second zone of a listing
C11_Witness ==
    \E t \in Tasks :
        /\ Len(changeCalls[t]) = 1
        /\ Len(task[t].healthy) = 2
        /\ changeCalls[t][1].HostedZoneId = "zone-2"
        /\ Len(hostedZones) = 2

\* a record goroutine of the cycle has started and not finished
running(t) == task[t].pc \notin {"idle", "done"}

C12_OnePoll ==
    /\ mainPc = "poll" <=> pollPc \in {"session", "describe", "spawn"}
    /\ \A t \in Tasks : running(t) => mainPc = "poll"
    /\ wg > 0 => mainPc = "poll"

C12_TickStartsCycle ==
    tick = 1 /\ tick' = 0 =>
        /\ mainPc = "select"
        /\ pollPc \in {"idle", "returned"}
        /\ wg = 0
        /\ \A t \in Tasks : ~running(t)
        /\ mainPc' = "poll"
        /\ pollPc' = "session"

\* C12: cycles never overlap: poll is in progress only while main is inside
\* its call, and a tick is taken from the ticker channel only when the last
\* call of poll has returned and all its goroutines have finished.
C12_CyclesNeverOverlap == []C12_OnePoll /\ [][C12_TickStartsCycle]_vars

\* the next tick is waiting in the channel while a cycle that follows an
\* earlier one is about to issue an upsert
C12_Witness ==
    /\ mainPc = "poll"
    /\ tick = 1
    /\ recordSets # noRecordSets
    /\ \E t \in Tasks : task[t].pc = "change"

C13_ExitedAfterCycle ==
    mainPc = "exited" =>
        /\ \A t \in Tasks : ~running(t)
        /\ wg = 0
        /\ exitCode # exitPanic => pollPc \in {"idle", "returned"}
        /\ ~ENABLED Tick
        /\ ~ENABLED MainTick

C13_SignalTakenInSelect ==
    /\ stop = 1 /\ stop' = 0 =>
         mainPc = "select" /\ mainPc' = "exited" /\ \A t \in Tasks : ~running(t)
    /\ (\E t \in Tasks : running(t)) => mainPc' # "exited"

\* C13: a stop signal that arrives during a cycle stays in the channel until
\* poll has returned; the exit it causes happens in the select loop, with
\* the ticker stopped and no record goroutine, hence no upsert, in progress.
C13_ShutdownAfterCycle == []C13_ExitedAfterCycle /\ [][C13_SignalTakenInSelect]_vars

\* the signal has arrived while a record goroutine is about to issue its
\* upsert
C13_Witness ==
    /\ mainPc = "poll"
    /\ stop = 1
    /\ \E t \in Tasks : task[t].pc = "change"

\* a cycle has returned after a failure of discovery, of every probe, of
\* zone resolution or of the upsert
failedCycle ==
    /\ pollPc = "returned"
    /\ \/ pollLog \in abortLogs
       \/ \E t \in Tasks : task[t].log \in {"all health checks failed, will not update",
                                            "error performing change on resource record"}

C14_BackInSelect ==
    failedCycle /\ mainPc # "exited" => mainPc = "select" /\ (tick = 1 => ENABLED MainTick)

C14_ExitOnStopOnly ==
    mainPc # "exited" /\ mainPc' = "exited" => mainPc = "select" /\ stop = 1

\* C14: after a cycle in which discovery, every probe, zone resolution or
\* the upsert failed, main is back in the select loop and takes the next
\* tick; the process exits only on the stop branch of the select.
C14_NoFailureExits == []C14_BackInSelect /\ [][C14_ExitOnStopOnly]_vars

\* the addresses of this cycle's inventory whose check against record t
\* returned nil in this cycle
passedNow(t) ==
    LET pass(ip) == ip \in passed[t]
    IN  SelectSeq(runningAddresses(ec2Instances), pass)

\* C15: every upsert payload issued in a running cycle is determined by this
\* cycle's inventory answer, probe outcomes and zone listing alone: its values are
\* the addresses of this inventory that passed this cycle, none carried over
\* from an earlier cycle.
C15_CyclesStateless ==
    mainPc = "poll" =>
    \A t \in Tasks : \A c \in DOMAIN changeCalls[t] :
        changeCalls[t][c] =
            changeInput(records[t], passedNow(t),
                        getRoute53HostedZoneID([err |-> nil, HostedZones |-> hostedZones],
                                               records[t]).id)

\* a cycle issues an upsert of one value for a record set that an earlier
\* cycle left with two values
C15_Witness ==
    \E t \in Tasks :
        /\ Len(changeCalls[t]) = 1
        /\ Len(changeCalls[t][1].Changes[1].ResourceRecords) = 1
        /\ <<changeCalls[t][1].HostedZoneId, records[t]>> \in DOMAIN recordSets
        /\ Len(recordSets[<<changeCalls[t][1].HostedZoneId, records[t]>>]) = 2

\* the zone with the trailing dot of its name removed, or added when it has
\* none
toggleDot(zone) ==
    IF HasSuffix(zone.Name, <<".">>)
    THEN [zone EXCEPT !.Name = TrimSuffix(@, <<".">>)]
    ELSE [zone EXCEPT !.Name = Append(@, ".")]

\* every zone of the listing has an id and a non-empty suffix
zonesNamed ==
    \A k \in DOMAIN hostedZones :
        hostedZones[k].Id # "" /\ stripped(hostedZones[k]) # <<>>

\* C16: for a listing of zones with ids and non-empty suffixes, adding or
\* removing the trailing dot of any one zone's name leaves the id resolved
\* for the record unchanged.
C16_TrailingDotIrrelevant ==
    \A t \in Tasks :
        zonesNamed /\ listCalls[t] = 1 /\ task[t].listErr = nil =>
            \A k \in DOMAIN hostedZones :
                getRoute53HostedZoneID(
                    [err |-> nil, HostedZones |-> [hostedZones EXCEPT ![k] = toggleDot(@)]],
                    records[t]).id = task[t].zoneID

\* the trials that have finished after an answer with status 200
countedTrials == {k \in okTrials : trial[k].pc = "done"}

\* C17: the success counter always equals the number of trials that have
\* finished with a 200 answer, and after the barrier it equals the number of
\* trials that received a 200 answer, in every interleaving.
C17_CounterCountsOK ==
    /\ success = Cardinality(countedTrials)
    /\ hcPc = "returned" => success = Cardinality(okTrials)

\* four of the six trials were counted
C17_Witness ==
    /\ hcPc = "returned"
    /\ success = 4
    /\ Cardinality(okTrials) = 4

\* the trials whose request went out with this scheme
sentWith(scheme) == {k \in Trials : trial[k].sent = scheme}

\* C18: every request of a check carries the scheme of the loop iteration
\* that started its trial, and a check whose address parsed has sent exactly
\* three requests over http and three over https when it returns.
C18_ThreePerScheme ==
    /\ \A k \in Trials : trial[k].sent # "" => trial[k].sent = schemeOf(k)
    /\ hcPc = "returned" /\ hcU # "" =>
         /\ Cardinality(sentWith("http")) = 3
         /\ Cardinality(sentWith("https")) = 3

\* an https trial sent its request while the loops were still starting
\* trials, before any http trial did
C18_Witness ==
    /\ hcPc = "spawn"
    /\ hcNext = passRate
    /\ sentWith("https") # {}
    /\ sentWith("http") = {}

\* C19: the check returns its verdict only when every trial it started has
\* finished; while a trial is still running, a trial that already failed
\* does not make the check return.
C19_VerdictAfterBarrier ==
    hcPc = "returned" =>
        /\ hcWg = 0
        /\ \A k \in Trials : trial[k].pc \in {"idle", "done"}
        /\ hcU # "" => \A k \in Trials : trial[k].pc = "done"

\* one trial has failed and finished while another has not sent its request
C19_Witness ==
    /\ hcPc = "spawn"
    /\ hcNext > passRate
    /\ \E k \in Trials : trial[k].pc = "done" /\ trial[k].res.err
    /\ \E k \in Trials : trial[k].pc = "request"

\* the addresses record goroutine t has checked so far
checkedBy(t) ==
    IF task[t].pc = "check" THEN SubSeq(ips, 1, task[t].i - 1) ELSE ips

\* C20: the healthy list of a record is the subsequence of the addresses
\* checked so far whose check returned nil; a failed check skips its address
\* only, every discovered address is checked, and the list the goroutine
\* goes on with is that subsequence of all discovered addresses.
C20_HealthyIsPassedSubsequence ==
    \A t \in Tasks :
        task[t].pc # "idle" =>
            LET pass(ip) == ip \in passed[t]
            IN  /\ probes[t] = Len(checkedBy(t))
                /\ task[t].healthy = SelectSeq(checkedBy(t), pass)

\* the first address failed its check and the second, checked afterwards,
\* was upserted alone
C20_Witness ==
    \E t \in Tasks :
        /\ Len(ips) = 2
        /\ probes[t] = 2
        /\ task[t].healthy = <<ips[2]>>
        /\ Len(changeCalls[t]) = 1
        /\ valuesOf(changeCalls[t][1]) = {IPString(ips[2])}

\* C21: when the text of the address is no URL, the check returns "error
\* parsing host url" at once: no trial is started, no request is sent, and
\* the only step the check takes is the one that returns.
C21_ParseErrorNoProbes ==
    IPString(hcIP) \in IPv6Texts /\ hcPc \notin {"idle", "start"} =>
        /\ hcPc = "returned"
        /\ Len(hcErr) = 2
        /\ hcErr[1].msg = "error parsing host url"
        /\ \A k \in Trials : trial[k] = idleTrial
        /\ hcWg = 0
        /\ success = 0

\* the check of an IPv6 address has returned
C21_Witness ==
    /\ hcIP = ip6
    /\ hcPc = "returned"
    /\ hcErr # nil

\* the zones whose stripped suffix is as long as any matching zone's
longestMatching(host) ==
    {k \in matching(host) :
        \A j \in matching(host) :
            Len(stripped(hostedZones[j])) <= Len(stripped(hostedZones[k]))}

\* C22: when several matching zones share the maximum stripped-suffix
\* length, the zone resolved is the first of them in the listing, and a zone
\* replaces the choice made so far only if its stripped suffix is longer.
C22_FirstLongestWins ==
    \A t \in Tasks :
        /\ task[t].pc = "change" /\ Cardinality(longestMatching(records[t])) > 1 =>
             \E k \in longestMatching(records[t]) :
                 /\ hostedZones[k].Id = task[t].zoneID
                 /\ \A j \in longestMatching(records[t]) : k <= j
        /\ \A k \in DOMAIN hostedZones :
             LET before == foundAfter(hostedZones, records[t], k - 1)
             IN  foundAfter(hostedZones, records[t], k) # before =>
                     Len(stripped(hostedZones[k])) > Len(stripped(before))

\* C23: an error of ensureRoute53RecordSet in a cycle is either "error
\* getting route53 hosted zone" wrapping the resolver's error, with no upsert
\* issued, or "error performing change to record set" wrapping the
\* provider's error, after the one upsert; the record goroutine logs it and
\* finishes, and the other records of the cycle are still reconciled.
C23_StagedErrors ==
    /\ \A t \in Tasks :
         task[t].err # nil =>
             /\ task[t].pc \in {"ensured", "done"}
             /\ task[t].pc = "done" => task[t].log = "error performing change on resource record"
             /\ \/ /\ outerMsg(task[t].err) = "error getting route53 hosted zone"
                   /\ Tail(task[t].err) \in
                          {Wrap("error listing hosted zones", awsError),
                           ErrorfHost("no zone id found for", records[t])}
                   /\ changeCalls[t] = <<>>
                \/ /\ outerMsg(task[t].err) = "error performing change to record set"
                   /\ Tail(task[t].err) = awsError
                   /\ Len(changeCalls[t]) = 1
    /\ pollPc = "returned" =>
         \A u \in Tasks :
             passed[u] # {} /\ task[u].err = nil /\ task[u].pc # "idle"
                 => Len(changeCalls[u]) = 1 /\ task[u].pc = "done"

\* a cycle returned in which the first record failed in zone resolution and
\* the second in the upsert
C23_Witness ==
    /\ pollPc = "returned"
    /\ outerMsg(task[1].err) = "error getting route53 hosted zone"
    /\ outerMsg(task[2].err) = "error performing change to record set"

C24_AllTasksJoined ==
    pollPc = "returned" /\ pollLog = "all records are up to date" =>
        /\ spawned = Len(records)
        /\ wg = 0
        /\ \A t \in Tasks : task[t].pc = "done"

\* C24: with every call returning, a cycle that has its session returns in
\* the end, no cycle stays in progress for ever, and poll logs its summary
\* only after it started one goroutine per record and all of them finished.
C24_CycleTerminates ==
    /\ pollPc = "describe" ~> pollPc = "returned"
    /\ mainPc = "poll" ~> mainPc # "poll"
    /\ []C24_AllTasksJoined

\* poll has returned with its summary after one record was upserted and the
\* other found no zone
C24_Witness ==
    /\ pollPc = "returned"
    /\ pollLog = "all records are up to date"
    /\ \E t, u \in Tasks :
         /\ Len(changeCalls[t]) = 1
         /\ listCalls[u] = 1 /\ changeCalls[u] = <<>>

\* C25 as stated: when a cycle returns to the select no tick that fired
\* during it is left to start another cycle.
C25_TickDuringCycleSkipped ==
    [][mainPc = "poll" /\ mainPc' = "select" => tick' = 0]_vars

\* C25 amended: the ticker channel holds one tick. The first tick that fires
\* during a cycle waits and starts the next cycle as soon as the running one
\* has returned; the ticks after it are dropped, so a cycle start always
\* empties the channel and a slow cycle is followed by one cycle at most.
C25_OneTickKept ==
    /\ [](tick \in 0..1)
    /\ [](mainPc = "select" /\ tick = 1 => ENABLED MainTick)
    /\ [][mainPc = "select" /\ mainPc' = "poll" => tick = 1 /\ tick' = 0]_vars
    /\ [][mainPc = "poll" /\ tick = 1 /\ mainPc' # "exited" => tick' = 1]_vars

\* a tick is waiting while the goroutines of the running cycle are at work
C25_Witness ==
    /\ mainPc = "poll"
    /\ spawned = Len(records)
    /\ wg > 0
    /\ \E t \in Tasks : task[t].pc = "done"
    /\ tick = 1

\* the trials whose request failed in transport, and those that were
\* answered with another status than 200
failedRequests == {k \in Trials : trial[k].sent # "" /\ trial[k].res.err}
failedStatuses == {k \in Trials : trial[k].sent # "" /\ ~trial[k].res.err
                                  /\ trial[k].res.StatusCode # statusOK}
quorumFailed == hcPc = "returned" /\ hcU # "" /\ hcErr # nil

selected(host) == foundAfter(hostedZones, host, Len(hostedZones))
matchingWithId(host) == {k \in matching(host) : hostedZones[k].Id # ""}

\* C27: an id returned with a nil error is not empty and is the id of a
\* listed zone whose stripped suffix is a suffix of the record name; when
\* the zone the loop selected has no id the call fails with "no zone id
\* found for", whatever other matching zones with an id the listing holds.
C27_ReturnedIdIsListed ==
    \A t \in Tasks :
        /\ task[t].pc = "change" =>
             /\ task[t].zoneID # ""
             /\ \E k \in matching(records[t]) : hostedZones[k].Id = task[t].zoneID
             /\ selected(records[t]).Id = task[t].zoneID
        /\ listCalls[t] = 1 /\ task[t].listErr = nil /\ selected(records[t]).Id = "" =>
             /\ task[t].pc = "ensured"
             /\ task[t].zoneID = ""
             /\ task[t].err = Wrap("error getting route53 hosted zone",
                                   ErrorfHost("no zone id found for", records[t]))
             /\ changeCalls[t] = <<>>

\* the zone selected has no id, another matching zone has one, and the
\* resolution has failed
C27_Witness ==
    \E t \in Tasks :
        /\ listCalls[t] = 1
        /\ task[t].listErr = nil
        /\ selected(records[t]) # zeroHostedZone
        /\ selected(records[t]).Id = ""
        /\ matchingWithId(records[t]) # {}
        /\ task[t].pc = "ensured"

\* name is the whole of host, or the part of host behind one of its dots
onLabelBoundary(host, name) ==
    \/ host = name
    \/ /\ Len(host) > Len(name)
       /\ HasSuffix(host, name)
       /\ host[Len(host) - Len(name)] = "."

\* C28: the zone resolved for a record owns it on a label boundary: its
\* stripped suffix is the whole record name or follows a "." in it, for
\* every listing of zones with ids and dot-terminated names.
C28_ZoneOnLabelBoundary ==
    listedByRoute53 =>
        \A t \in Tasks :
            task[t].pc = "change" =>
                \A k \in DOMAIN hostedZones :
                    hostedZones[k].Id = task[t].zoneID =>
                        onLabelBoundary(records[t], stripped(hostedZones[k]))

\* C29 as stated: once the stop signal is pending the select never starts
\* a cycle.
C29_NoCycleAfterSignal ==
    [][stop = 1 => ~(mainPc = "select" /\ mainPc' = "poll")]_vars

\* C29 amended: with a tick and the stop signal both pending the select
\* may take either branch, so a cycle can still begin after the signal was
\* delivered, and it needs a pending tick to do so. The signal stays
\* pending until the process exits, the stop branch is ready at every
\* select from then on, and no cycle begins once the process has exited.
C29_EitherBranchReady ==
    /\ [](mainPc = "select" /\ stop = 1 /\ tick = 1 => ENABLED MainTick /\ ENABLED MainStop)
    /\ [](mainPc = "select" /\ stop = 1 => ENABLED MainStop)
    /\ [](mainPc = "exited" => ~ENABLED MainTick)
    /\ [][stop = 1 => stop' = 1 \/ mainPc' = "exited"]_vars
    /\ [][stop = 1 /\ mainPc = "select" /\ mainPc' = "poll" => tick = 1 /\ tick' = 0]_vars
    /\ [][mainPc = "exited" => mainPc' = "exited" /\ UNCHANGED <<pollVars, taskVars>>]_vars

\* a cycle has returned to the select with the signal and a tick pending
C29_Witness ==
    /\ mainPc = "select"
    /\ pollPc = "returned"
    /\ stop = 1
    /\ tick = 1

\* C30: with every cycle returning and the select choosing fairly among its
\* ready branches, a delivered stop signal is followed by the exit of the
\* process, also when a tick is ready at every return to the select.
C30_StopEventuallyTaken == stop = 1 ~> mainPc = "exited"

\* the stop branch was taken after a cycle, with a tick ready in the channel
C30_Witness ==
    /\ mainPc = "exited"
    /\ stop = 0
    /\ exitCode # exitPanic
    /\ tick = 1
    /\ pollPc = "returned"

=============================================================================
